---- MODULE Spec2Model ----
(***************************************************************************)
(* Model of the M-Pesa STK-push gateway client (src/src/lib/mpesa.ts,      *)
(* class MpesaAPI, lines 18-298) and of the callback ledger                *)
(* (src/src/lib/transactions-manager.ts, src/src/app/api/payments/         *)
(* callback/route.ts, lines 1-65).                                         *)
(*                                                                         *)
(* The JavaScript run-time is modelled as an event loop: a synchronous     *)
(* stretch of code between two awaits is one action; a continuation of an  *)
(* await on an already settled promise is a microtask (microQ, FIFO);      *)
(* network responses, timers and file-system completions are macrotasks,   *)
(* which run only when no microtask is pending.                            *)
(***************************************************************************)
EXTENDS Integers, Sequences, FiniteSets, TLC

\* ------------------------------------------------------------------ bounds
NumCallers == 2        \* concurrent initiatePayment calls on one MpesaAPI instance
MaxTicks == 2          \* clock ticks of TickMs the model lets pass
NumHandlers == 2       \* concurrent deliveries of a callback to the webhook
MaxDeliveries == 3     \* callbacks the gateway delivers in one run
NumRandom == 2         \* values Math.random() may take in an id
MaxAppends == 45       \* callbacks delivered one after another in the sequential run
MaxLedger == 2         \* records in the ledger the dashboard run starts with
MaxResets == 2         \* calls of clearOldTransactions in the dashboard run

\* ------------------------------------------------------- program constants
DefaultRetries == 3        \* makeRequest(..., retries = 3)
BackoffBaseMs == 1000      \* Math.pow(2, attempt) * 1000
BackoffCapMs == 10000      \* Math.min(..., 10000)
DefaultExpiresIn == 3000   \* (data.expires_in || 3000)
MAX_TRANSACTIONS == 40     \* TransactionsManager.MAX_TRANSACTIONS
RefreshSkewMs == 30000     \* the 30 seconds buffer of the earlier isTokenValid

DayMs == 24 * 60 * 60 * 1000        \* a day, in ms
TimezoneOffsetMs == 3 * 60 * 60 * 1000  \* local time is UTC+3 (Africa/Nairobi)
TickMs == 1000 * 1000      \* one tick of the modelled clock: a thousand seconds, in ms

Callers == 1..NumCallers
Handlers == 1..NumHandlers

\* ------------------------------------------------------------ pure helpers
Min(a, b) == IF a < b THEN a ELSE b

RECURSIVE Pow2(_)
Pow2(n) == IF n = 0 THEN 1 ELSE 2 * Pow2(n - 1)

Digits == {"0", "1", "2", "3", "4", "5", "6", "7", "8", "9"}

IsDigit(ch) == ch \in Digits

\* phone.replace(/\D/g, '')
cleaned(phone) == SelectSeq(phone, IsDigit)

startsWith(s, p) == Len(s) >= Len(p) /\ SubSeq(s, 1, Len(p)) = p

InvalidFormat == <<"!">>   \* formatPhoneNumber throws 'Invalid phone number format'

\* formatPhoneNumber without the slice(1) of the leading "0"
formatPhoneNumberKeepZero(phone) ==
  LET c == cleaned(phone) IN
  IF Len(c) = 9 THEN <<"2", "5", "4">> \o c
  ELSE IF Len(c) = 10 /\ startsWith(c, <<"0">>) THEN <<"2", "5", "4">> \o c
  ELSE IF Len(c) = 12 /\ startsWith(c, <<"2", "5", "4">>) THEN c
  ELSE InvalidFormat

formatPhoneNumber(phone) ==
  LET c == cleaned(phone) IN
  IF Len(c) = 9 THEN <<"2", "5", "4">> \o c
  ELSE IF Len(c) = 10 /\ startsWith(c, <<"0">>) THEN <<"2", "5", "4">> \o SubSeq(c, 2, 10)
  ELSE IF Len(c) = 12 /\ startsWith(c, <<"2", "5", "4">>) THEN c
  ELSE InvalidFormat

\* Math.floor in place of Math.round
MathRoundDown(tenths) == tenths \div 10

\* Math.round on an amount given in tenths of a currency unit (half rounds up)
MathRound(tenths) == (tenths + 5) \div 10

\* The message of the Error validatePaymentRequest throws, "" when it returns.
validatePaymentRequestNoRef(request) ==
  IF request.phoneNumber = <<>> THEN "Invalid phone number"
  ELSE IF (~request.hasAmount) \/ request.amount = 0 \/ request.amount <= 0 THEN "Invalid amount"
  ELSE ""

validatePaymentRequest(request) ==
  IF request.phoneNumber = <<>> THEN "Invalid phone number"
  ELSE IF (~request.hasAmount) \/ request.amount = 0 \/ request.amount <= 0 THEN "Invalid amount"
  ELSE IF request.accountReference = "" THEN "Account reference is required"
  ELSE ""

backoffTimeDecreasing(attempt) == Min(Pow2(DefaultRetries - attempt) * BackoffBaseMs, BackoffCapMs)

\* A backoff that grows linearly with the attempt number
backoffTimeLinear(attempt) == Min(attempt * BackoffBaseMs, BackoffCapMs)

\* Math.min(Math.pow(2, attempt) * 1000, 10000)
backoffTime(attempt) == Min(Pow2(attempt) * BackoffBaseMs, BackoffCapMs)

\* ------------------------------------------------------------------ inputs
Phone0 == <<"0", "7", "1", "2", "3", "4", "5", "6", "7", "8">>
Phone9 == <<"7", "1", "2", "3", "4", "5", "6", "7", "8">>
Phone254 == <<"2", "5", "4", "7", "1", "2", "3", "4", "5", "6", "7", "8">>
PhoneShort == <<"1", "2", "3", "4", "5">>
PhonePlus == <<"+", "2", "5", "4", "7", "1", "2", "3", "4", "5", "6", "7", "8">>
Phone10 == <<"1", "7", "1", "2", "3", "4", "5", "6", "7", "8">>
Phone12 == <<"2", "5", "5", "7", "1", "2", "3", "4", "5", "6", "7", "8">>

Req(p, h, a, r) == [phoneNumber |-> p, hasAmount |-> h, amount |-> a, accountReference |-> r]

NoRequest == Req(<<>>, FALSE, 0, "")

\* Requests a caller may pass to initiatePayment (amounts in tenths).
Requests ==
  { Req(Phone0, TRUE, 1006, "INV1"),
    Req(PhonePlus, TRUE, 1000, "INV2"),
    Req(<<>>, TRUE, 1000, "INV1"),
    Req(Phone9, FALSE, 0, "INV1"),
    Req(Phone9, TRUE, -10, "INV1"),
    Req(Phone254, TRUE, 1000, ""),
    Req(PhoneShort, TRUE, 1000, "INV1") }

\* Valid requests with phone numbers of the shapes formatPhoneNumber tells apart.
PhoneRequests ==
  { Req(Phone9, TRUE, 1000, "INV1"),
    Req(Phone254, TRUE, 1000, "INV1"),
    Req(Phone10, TRUE, 1000, "INV1"),
    Req(Phone12, TRUE, 1000, "INV1") }

\* What the token endpoint may answer.
\* Valid requests with fractional amounts: 100.4, 100.5 and 0.4 (in tenths).
AmountRequests ==
  { Req(Phone9, TRUE, 1004, "INV1"),
    Req(Phone9, TRUE, 1005, "INV1"),
    Req(Phone9, TRUE, 4, "INV1") }

AllRequests == Requests \cup PhoneRequests \cup AmountRequests

TokenValues == {"tokA", "tokB"}
ExpiresInValues == {0, 20, 1000} \* seconds; 0 stands for an absent expires_in

\* What one exchange with the payment endpoint may produce:
\*   ok0       2xx, ResponseCode "0"
\*   reject    2xx, ResponseCode other than "0"
\*   h401      HTTP 401 (errorCode 'Invalid Access Token')
\*   h500      another non-2xx status
\*   transport fetch rejects, the gateway never saw the request
\*   lost      fetch rejects after the gateway accepted the request
PostOutcomes == {"ok0", "reject", "h401", "h500", "transport", "lost"}

\* ------------------------------------------------------------------- state
VARIABLES
  scenario,       \* the run's environment: which callers call, what the gateway answers
  now,            \* Date.now()
  accessToken,    \* MpesaAPI.accessToken ("" initially)
  tokenExpiry,    \* MpesaAPI.tokenExpiry
  tokenLock,      \* MpesaAPI.tokenLock: TRUE when it holds a promise, FALSE when null
  microQ,         \* the microtask queue
  pc,             \* per caller: position in initiatePayment
  req,            \* per caller: the request passed to initiatePayment
  token,          \* per caller: the local `token` of initiatePayment
  payload,        \* per caller: the payload and the Authorization header (after "Bearer ") sent
  attempt,        \* per caller: makeRequest's loop variable
  lastError,      \* per caller: makeRequest's lastError / the error the call failed with
  resps,          \* per caller: outcomes of the POSTs made so far (history)
  delays,         \* per caller: backoff delays slept so far, each after an attempt (history)
  tokReqs,        \* per caller: requests sent to the token endpoint (history)
  invalidations,  \* per caller: times makeRequest reset tokenExpiry (history)
  accepted,       \* per caller: STK pushes the gateway accepted (history)
  logged,         \* the entries MpesaAPI has written to the console (history)
  config,         \* the MpesaConfig passed to the constructor
  instance,       \* "new" before the constructor runs, "ok" once it has returned,
                  \* "configError" when it threw
  transactionsFile, \* transactions.json: [exists, txs, corrupt], txs newest first,
                    \* corrupt when the content is not the JSON text of a list
  hpc,            \* per webhook handler: position in POST / addTransaction
  hcb,            \* per webhook handler: the callback body being handled
  htxs,           \* per webhook handler: addTransaction's local `transactions`
  hrec,           \* per webhook handler: addTransaction's newTransaction
  hstatus,        \* per webhook handler: HTTP status of the response (0: none yet)
  deliveries,     \* callbacks delivered so far (history)
  apc,            \* the dashboard's position: "idle", the TransactionsManager call
                  \* it awaits, or "done"
  aresult,        \* what that call gave
  resets,         \* completed calls of clearOldTransactions (history)
  jwtSecret,      \* process.env.JWT_SECRET ("" when it is not set)
  jar,            \* the browser's cookies, by name
  lres,           \* HTTP status of the last answer of the login route (0: none yet)
  mres            \* the last request the middleware answered, and its answer

tokenVars == <<accessToken, tokenExpiry, tokenLock>>
histVars == <<resps, delays, tokReqs, invalidations, accepted>>
clientVars == <<scenario, accessToken, tokenExpiry, tokenLock, microQ, pc, req, token, payload,
                attempt, lastError, resps, delays, tokReqs, invalidations, accepted,
                logged, config, instance>>
ledgerVars == <<transactionsFile, hpc, hcb, htxs, hrec, hstatus, deliveries>>
authVars == <<jwtSecret, jar, lres, mres>>
pageVars == <<apc, aresult, resets, authVars>>
vars == <<now, clientVars, ledgerVars, pageVars>>

\* A console entry: its message and, of its other members, the access token
\* and the phone number it carries ("" and <<>> when it carries none).
Log(message, tok, phone) == [message |-> message, accessToken |-> tok, phoneNumber |-> phone]

\* `${formatted.slice(0, 6)}****${formatted.slice(-2)}`
maskPhoneNumber(phone) ==
  LET formatted == formatPhoneNumber(phone) IN
    SubSeq(formatted, 1, 6) \o <<"*", "*", "*", "*">>
      \o SubSeq(formatted, Len(formatted) - 1, Len(formatted))

Unlock == [kind |-> "unlock", c |-> 0]
Resume(c) == [kind |-> "resume", c |-> c]

NoPayload == [Amount |-> 0, PhoneNumber |-> <<>>, Authorization |-> ""]

\* `${this.token}` in makeRequest's Authorization header: MpesaAPI has no field
\* `token` (the parameter is `token`), so the template renders "undefined".
thisToken == "undefined"

\* Every caller calls initiatePayment on one shared MpesaAPI instance, with a
\* request that passes validatePaymentRequest; the payment endpoint accepts,
\* rejects the token or is unreachable.
ConcurrentCallers ==
  [callers |-> Callers,
   requests |-> {r \in Requests : validatePaymentRequest(r) = ""},
   outcomes |-> {"ok0", "h401", "transport"},
   deliveries |-> MaxDeliveries]

\* One call of initiatePayment, with any request, against a payment endpoint
\* that may answer anything.
SingleCaller ==
  [callers |-> {1}, requests |-> AllRequests, outcomes |-> PostOutcomes,
   deliveries |-> MaxDeliveries]

\* No payment is initiated; the gateway delivers MaxAppends callbacks, each after
\* the previous one was answered.
SequentialAppends == [callers |-> {}, requests |-> {}, outcomes |-> {}, deliveries |-> MaxAppends]

\* ------------------------------------------------ constructor, validateConfig
\* A configuration the constructor accepts.
ValidConfig ==
  [consumerKey |-> "key", consumerSecret |-> "secret", shortcode |-> "174379",
   passkey |-> "passkey", callbackUrl |-> <<"h", "t", "t", "p", "s", ":", "/", "/", "a">>,
   baseURL |-> "https://sandbox"]

\* this.config before the constructor has assigned it
NoConfig ==
  [consumerKey |-> "", consumerSecret |-> "", shortcode |-> "", passkey |-> "",
   callbackUrl |-> <<>>, baseURL |-> ""]

\* The configurations `new MpesaAPI(config)` is called with: the valid one, the
\* valid one with one field empty, and ones whose callback URL is a plain-HTTP
\* URL or a text that begins with "https" without being a URL.
Configs ==
  {ValidConfig,
   [ValidConfig EXCEPT !.consumerKey = ""], [ValidConfig EXCEPT !.consumerSecret = ""],
   [ValidConfig EXCEPT !.shortcode = ""], [ValidConfig EXCEPT !.passkey = ""],
   [ValidConfig EXCEPT !.callbackUrl = <<>>], [ValidConfig EXCEPT !.baseURL = ""],
   [ValidConfig EXCEPT !.callbackUrl = <<"h", "t", "t", "p", ":", "/", "/", "a">>],
   [ValidConfig EXCEPT !.callbackUrl = <<"h", "t", "t", "p", "s", ".", "a">>]}

\* requiredFields.filter(field => !config[field])
missingFields(cfg) ==
  {f \in {"consumerKey", "consumerSecret", "shortcode", "passkey", "baseURL"} : cfg[f] = ""}
    \cup (IF cfg.callbackUrl = <<>> THEN {"callbackUrl"} ELSE {})

\* The message of the error validateConfig throws, "" when it returns.
validateConfig(cfg) ==
  IF missingFields(cfg) # {} THEN "Missing required configuration fields"
  ELSE IF ~startsWith(cfg.callbackUrl, <<"h", "t", "t", "p", "s">>)
    THEN "Callback URL must use HTTPS in production"
  ELSE ""

\* new MpesaAPI(cfg): validateConfig throws, or this.config is assigned.
Construct(cfg) ==
  /\ instance = "new"
  /\ IF validateConfig(cfg) # ""
       THEN /\ instance' = "configError"
            /\ UNCHANGED config
       ELSE /\ instance' = "ok"
            /\ config' = cfg
  /\ UNCHANGED <<ledgerVars, pageVars, scenario, now, tokenVars, microQ, pc, req, token, payload,
                 attempt, lastError, histVars, logged>>

\* The fields of a client on which no call has been made.
ClientFields ==
  /\ now = TickMs
  /\ accessToken = ""
  /\ tokenExpiry = 0
  /\ tokenLock = FALSE
  /\ microQ = <<>>
  /\ pc = [c \in Callers |-> "idle"]
  /\ req = [c \in Callers |-> NoRequest]
  /\ token = [c \in Callers |-> ""]
  /\ payload = [c \in Callers |-> NoPayload]
  /\ attempt = [c \in Callers |-> 0]
  /\ lastError = [c \in Callers |-> ""]
  /\ resps = [c \in Callers |-> <<>>]
  /\ delays = [c \in Callers |-> <<>>]
  /\ tokReqs = [c \in Callers |-> 0]
  /\ invalidations = [c \in Callers |-> 0]
  /\ accepted = [c \in Callers |-> 0]
  /\ logged = {}

\* A client constructed from a valid configuration.
ClientInit == ClientFields /\ config = ValidConfig /\ instance = "ok"

NoCallback == [wellFormed |-> FALSE, ResultCode |-> 0, hasAmount |-> FALSE, Amount |-> 0]
NoRecord == [id |-> <<0, 0>>, amount |-> 0, status |-> "", timestamp |-> 0]

NoResult == [kind |-> "none", txs |-> <<>>, totalOrders |-> 0, totalRevenue |-> 0, at |-> 0]

\* ------------------------------------------------------ cookies and tokens
CookieNames == {"auth-token", "internal-auth-token"}

\* The value of a cookie the request does not carry.
NoCookie == [signedWith |-> "", exp |-> 0]

\* `process.env.JWT_SECRET || 'your-secret-key'`
DefaultSecret == "your-secret-key"

\* '8h'
SessionMs == 8 * 60 * 60 * 1000

\* No request of a browser has been answered.
NoVisit == [path |-> <<"none">>, sent |-> [n \in CookieNames |-> NoCookie], result |-> "", at |-> 0]

\* Nobody has logged in; JWT_SECRET is not set.
NoSession ==
  /\ jwtSecret = ""
  /\ jar = [n \in CookieNames |-> NoCookie]
  /\ lres = 0
  /\ mres = NoVisit

\* No request is being handled.
HandlersIdle ==
  /\ apc = "idle"
  /\ aresult = NoResult
  /\ resets = 0
  /\ hpc = [h \in Handlers |-> "idle"]
  /\ hcb = [h \in Handlers |-> NoCallback]
  /\ htxs = [h \in Handlers |-> <<>>]
  /\ hrec = [h \in Handlers |-> NoRecord]
  /\ hstatus = [h \in Handlers |-> 0]
  /\ deliveries = 0

HandlersInit == HandlersIdle /\ NoSession

\* transactions.json does not exist yet.
LedgerInit ==
  /\ transactionsFile = [exists |-> FALSE, txs |-> <<>>, corrupt |-> FALSE]
  /\ HandlersInit

Init == scenario = ConcurrentCallers /\ ClientInit /\ LedgerInit

InitExec == scenario = SingleCaller /\ ClientInit /\ LedgerInit

InitSeq == scenario = SequentialAppends /\ ClientInit /\ LedgerInit

\* The constructor has not run yet.
InitConfig ==
  /\ scenario = SingleCaller
  /\ ClientFields /\ config = NoConfig /\ instance = "new"
  /\ LedgerInit

\* No payment is initiated and no callback delivered; the dashboard reads and
\* resets the ledger.
DashboardOnly == [callers |-> {}, requests |-> {}, outcomes |-> {}, deliveries |-> 0]

\* Timestamps of the records the dashboard run finds: the last millisecond of
\* the local day before the one the clock starts in, the first of that day,
\* and the time the clock starts at.
LedgerTimes == {0 - TimezoneOffsetMs - 1, 0 - TimezoneOffsetMs, TickMs}

\* Records addTransaction may have written at those times: completed payments
\* of 50 and 500, and a failed one.
LedgerRecords ==
  { [id |-> <<t, 1>>, amount |-> k[1], status |-> k[2], timestamp |-> t] :
      t \in LedgerTimes, k \in {<<500, "Completed">>, <<50, "Completed">>, <<0, "Pending">>} }

\* Ledgers of up to MaxLedger such records, newest first.
Ledgers ==
  { l \in UNION {[1..n -> LedgerRecords] : n \in 1..MaxLedger} :
      \A i, j \in DOMAIN l : i < j => l[i].timestamp >= l[j].timestamp }

InitAdmin ==
  /\ scenario = DashboardOnly
  /\ ClientInit
  /\ HandlersInit
  /\ transactionsFile \in
       {[exists |-> FALSE, txs |-> <<>>, corrupt |-> FALSE]}
         \cup {[exists |-> TRUE, txs |-> l, corrupt |-> FALSE] : l \in Ledgers}

\* --------------------------------------------------------- getAccessToken
\* isTokenValid with the comparison turned round
isTokenValidInverted == accessToken # "" /\ tokenExpiry < now

\* Boolean(this.accessToken && this.tokenExpiry > Date.now())
isTokenValid == accessToken # "" /\ tokenExpiry > now

\* getAccessToken from `this.tokenLock = new Promise(...)` to the first await or
\* the return; q is the microtask queue the step leaves behind.
getAccessTokenBody(c, q) ==
  /\ logged' = logged \cup {Log("Requesting new access token", "", <<>>)}
  /\ tokenLock' = TRUE
  /\ IF isTokenValid
       THEN \* return this.accessToken; finally queues the unlock, then the caller resumes
            /\ token' = [token EXCEPT ![c] = accessToken]
            /\ pc' = [pc EXCEPT ![c] = "gotToken"]
            /\ microQ' = q \o <<Unlock, Resume(c)>>
            /\ UNCHANGED tokReqs
       ELSE \* await fetch(.../oauth/v1/generate...)
            /\ pc' = [pc EXCEPT ![c] = "fetchToken"]
            /\ tokReqs' = [tokReqs EXCEPT ![c] = @ + 1]
            /\ microQ' = q
            /\ UNCHANGED token
  /\ UNCHANGED <<accessToken, tokenExpiry>>

\* getAccessToken from its first line
getAccessToken(c, q) ==
  IF tokenLock
    THEN \* await this.tokenLock: the lock is an already resolved promise
         /\ pc' = [pc EXCEPT ![c] = "awaitLock"]
         /\ microQ' = Append(q, Resume(c))
         /\ UNCHANGED <<tokenVars, token, tokReqs, logged>>
    ELSE getAccessTokenBody(c, q)

\* initiatePayment is called: validatePaymentRequest, then getAccessToken up to
\* its first await.
InitiatePayment(c, r) ==
  /\ c \in scenario.callers
  /\ r \in scenario.requests
  /\ instance = "ok"
  /\ pc[c] = "idle"
  /\ req' = [req EXCEPT ![c] = r]
  /\ IF validatePaymentRequest(r) # ""
       THEN /\ pc' = [pc EXCEPT ![c] = "failed"]
            /\ lastError' = [lastError EXCEPT ![c] = validatePaymentRequest(r)]
            /\ UNCHANGED <<tokenVars, microQ, token, tokReqs, logged>>
       ELSE /\ getAccessToken(c, microQ)
            /\ UNCHANGED lastError
  /\ UNCHANGED <<ledgerVars, pageVars, config, instance, scenario, now, payload, attempt, resps, delays, invalidations, accepted>>

\* UnlockTask whose callback leaves tokenLock as it is
UnlockTaskKeepsLock ==
  /\ microQ # <<>>
  /\ Head(microQ) = Unlock
  /\ tokenLock' = tokenLock
  /\ microQ' = Tail(microQ)
  /\ UNCHANGED <<ledgerVars, pageVars, config, instance, scenario, now, accessToken, tokenExpiry, pc, req, token, payload, attempt,
                 lastError, histVars, logged>>

\* Microtask: the callback of this.tokenLock.then(() => this.tokenLock = null)
UnlockTask ==
  /\ microQ # <<>>
  /\ Head(microQ) = Unlock
  /\ tokenLock' = FALSE
  /\ microQ' = Tail(microQ)
  /\ UNCHANGED <<ledgerVars, pageVars, config, instance, scenario, now, accessToken, tokenExpiry, pc, req, token, payload, attempt,
                 lastError, histVars, logged>>

\* Microtask: getAccessToken resumes after `await this.tokenLock`
ResumeAfterLock(c) ==
  /\ microQ # <<>>
  /\ Head(microQ) = Resume(c)
  /\ pc[c] = "awaitLock"
  /\ IF isTokenValid
       THEN /\ token' = [token EXCEPT ![c] = accessToken]
            /\ pc' = [pc EXCEPT ![c] = "gotToken"]
            /\ microQ' = Append(Tail(microQ), Resume(c))
            /\ logged' = logged \cup {Log("Using cached access token", accessToken, <<>>)}
            /\ UNCHANGED <<tokenVars, tokReqs>>
       ELSE getAccessTokenBody(c, Tail(microQ))
  /\ UNCHANGED <<ledgerVars, pageVars, config, instance, scenario, now, req, payload, attempt, lastError, resps, delays, invalidations,
                 accepted>>

\* TokenResponse that stores the body's fields before it checks them
TokenResponseAssignFirst(c, kind, tok, expiresIn) ==
  /\ microQ = <<>>
  /\ pc[c] = "fetchToken"
  /\ IF kind \in {"ok", "no_token"}
       THEN /\ accessToken' = IF kind = "ok" THEN tok ELSE ""
            /\ tokenExpiry' = now + (IF expiresIn = 0 THEN DefaultExpiresIn ELSE expiresIn) * 1000
       ELSE UNCHANGED <<accessToken, tokenExpiry>>
  /\ IF kind = "ok"
       THEN /\ token' = [token EXCEPT ![c] = tok]
            /\ pc' = [pc EXCEPT ![c] = "gotToken"]
            /\ microQ' = <<Unlock, Resume(c)>>
            /\ UNCHANGED lastError
       ELSE /\ pc' = [pc EXCEPT ![c] = "failed"]
            /\ lastError' = [lastError EXCEPT ![c] =
                 IF kind = "http_error" THEN "Failed to get access token"
                 ELSE IF kind = "no_token" THEN "Invalid token response from server"
                 ELSE "fetch failed"]
            /\ microQ' = <<Unlock>>
            /\ UNCHANGED token
  /\ logged' = logged \cup
       (CASE kind = "ok" -> {Log("New access token obtained", tok, <<>>)}
          [] kind = "http_error" -> {Log("Failed to get access token", "", <<>>)}
          [] kind = "no_token" -> {Log("Invalid token response", "", <<>>)}
          [] OTHER -> {})
  /\ UNCHANGED <<ledgerVars, pageVars, config, instance, scenario, now, tokenLock, req, payload, attempt, histVars>>

\* Macrotask: the token endpoint's answer arrives (fetch, response.json()).
TokenResponse(c, kind, tok, expiresIn) ==
  /\ microQ = <<>>
  /\ pc[c] = "fetchToken"
  /\ IF kind = "ok"
       THEN /\ accessToken' = tok
            /\ tokenExpiry' = now + (IF expiresIn = 0 THEN DefaultExpiresIn ELSE expiresIn) * 1000
            /\ token' = [token EXCEPT ![c] = tok]
            /\ pc' = [pc EXCEPT ![c] = "gotToken"]
            /\ microQ' = <<Unlock, Resume(c)>>
            /\ UNCHANGED lastError
       ELSE /\ pc' = [pc EXCEPT ![c] = "failed"]
            /\ lastError' = [lastError EXCEPT ![c] =
                 IF kind = "http_error" THEN "Failed to get access token"
                 ELSE IF kind = "no_token" THEN "Invalid token response from server"
                 ELSE "fetch failed"]
            /\ microQ' = <<Unlock>>
            /\ UNCHANGED <<accessToken, tokenExpiry, token>>
  /\ logged' = logged \cup
       (CASE kind = "ok" -> {Log("New access token obtained", tok, <<>>)}
          [] kind = "http_error" -> {Log("Failed to get access token", "", <<>>)}
          [] kind = "no_token" -> {Log("Invalid token response", "", <<>>)}
          [] OTHER -> {})
  /\ UNCHANGED <<ledgerVars, pageVars, config, instance, scenario, now, tokenLock, req, payload, attempt, histVars>>

TokenOutcomes == {"ok", "http_error", "no_token", "transport"}

\* ---------------------------------------------- initiatePayment, makeRequest
\* Microtask: initiatePayment resumes after `await this.getAccessToken()`, builds
\* the payload and enters makeRequest up to the first `await fetch(endpoint, ...)`.
ResumeAfterToken(c) ==
  /\ microQ # <<>>
  /\ Head(microQ) = Resume(c)
  /\ pc[c] = "gotToken"
  /\ microQ' = Tail(microQ)
  /\ IF formatPhoneNumber(req[c].phoneNumber) = InvalidFormat
       THEN /\ pc' = [pc EXCEPT ![c] = "failed"]
            /\ lastError' = [lastError EXCEPT ![c] = "Invalid phone number format"]
            /\ UNCHANGED <<payload, attempt, logged>>
       ELSE /\ payload' = [payload EXCEPT ![c] =
                 [Amount |-> MathRound(req[c].amount),
                  PhoneNumber |-> formatPhoneNumber(req[c].phoneNumber),
                  Authorization |-> thisToken]]
            /\ attempt' = [attempt EXCEPT ![c] = 1]
            /\ pc' = [pc EXCEPT ![c] = "posting"]
            /\ logged' = logged \cup
                 {Log("Initiating payment:", "", maskPhoneNumber(req[c].phoneNumber)),
                  Log("Making request to endpoint", token[c], <<>>)}
            /\ UNCHANGED lastError
  /\ UNCHANGED <<ledgerVars, pageVars, config, instance, scenario, now, tokenVars, req, token, histVars>>

\* The catch block of makeRequest's loop, entered with an error of message err
\* after the try block has written the entries of tried to the console.
makeRequestCatch(c, err, tried) ==
  /\ lastError' = [lastError EXCEPT ![c] = err]
  /\ IF err = "Invalid Access Token"
       THEN \* throw error; "Let the calling function handle token refresh"
            /\ pc' = [pc EXCEPT ![c] = "failed"]
            /\ logged' = logged \cup tried
            /\ UNCHANGED delays
       ELSE IF attempt[c] = DefaultRetries
         THEN \* throw lastError
              /\ pc' = [pc EXCEPT ![c] = "failed"]
              /\ logged' = logged \cup tried \cup {Log("All retry attempts failed", "", <<>>)}
              /\ UNCHANGED delays
         ELSE \* await new Promise(resolve => setTimeout(resolve, backoffTime))
              /\ pc' = [pc EXCEPT ![c] = "backoff"]
              /\ logged' = logged \cup tried \cup {Log("Retrying after", "", <<>>)}
              /\ delays' = [delays EXCEPT ![c] =
                   Append(@, [after |-> attempt[c], ms |-> backoffTime(attempt[c])])]

\* A variant of the !response.ok block that resets tokenExpiry on every 401.
makeRequestNotOkInvalidating(c, kind) ==
  /\ IF kind = "h401"
       THEN /\ tokenExpiry' = 0
            /\ invalidations' = [invalidations EXCEPT ![c] = @ + 1]
       ELSE UNCHANGED <<tokenExpiry, invalidations>>
  /\ makeRequestCatch(c, "errorMessage", {Log("Request failed", "", <<>>)})

\* The `if (!response.ok)` block of makeRequest: evaluating the argument of
\* console.error reads the undeclared identifier errorData, which throws a
\* ReferenceError before the Error for the response is built; the token is
\* left as it is.
makeRequestNotOk(c, kind) ==
  /\ makeRequestCatch(c, "errorData is not defined", {})
  /\ UNCHANGED <<tokenExpiry, invalidations>>

\* PostResponse without the check of data.ResponseCode: every 2xx body is returned
PostResponseNoCodeCheck(c, kind) ==
  /\ microQ = <<>>
  /\ pc[c] = "posting"
  /\ kind \in scenario.outcomes
  /\ resps' = [resps EXCEPT ![c] = Append(@, kind)]
  /\ accepted' = [accepted EXCEPT ![c] = IF kind \in {"ok0", "lost"} THEN @ + 1 ELSE @]
  /\ CASE kind \in {"ok0", "reject"} ->
            /\ pc' = [pc EXCEPT ![c] = "done"]
            /\ UNCHANGED <<lastError, delays, tokenExpiry, invalidations, logged>>
       [] kind \in {"h401", "h500"} ->
            makeRequestNotOk(c, kind)
       [] kind \in {"transport", "lost"} ->
            /\ makeRequestCatch(c, "fetch failed", {})
            /\ UNCHANGED <<tokenExpiry, invalidations>>
  /\ UNCHANGED <<ledgerVars, pageVars, config, instance, scenario, now, accessToken, tokenLock, microQ, req, token, payload, attempt, tokReqs>>

\* Macrotask: one exchange with the payment endpoint ends (fetch, response.json()).
PostResponse(c, kind) ==
  /\ microQ = <<>>
  /\ pc[c] = "posting"
  /\ kind \in scenario.outcomes
  /\ resps' = [resps EXCEPT ![c] = Append(@, kind)]
  /\ accepted' = [accepted EXCEPT ![c] = IF kind \in {"ok0", "lost"} THEN @ + 1 ELSE @]
  /\ CASE kind = "ok0" ->
            \* return data
            /\ pc' = [pc EXCEPT ![c] = "done"]
            /\ UNCHANGED <<lastError, delays, tokenExpiry, invalidations, logged>>
       [] kind = "reject" ->
            \* throw new Error(data.ResponseDescription || 'Payment request failed')
            /\ makeRequestCatch(c, "ResponseDescription", {Log("Payment request failed", "", <<>>)})
            /\ UNCHANGED <<tokenExpiry, invalidations>>
       [] kind \in {"h401", "h500"} ->
            makeRequestNotOk(c, kind)
       [] kind \in {"transport", "lost"} ->
            \* fetch rejects
            /\ makeRequestCatch(c, "fetch failed", {})
            /\ UNCHANGED <<tokenExpiry, invalidations>>
  /\ UNCHANGED <<ledgerVars, pageVars, config, instance, scenario, now, accessToken, tokenLock, microQ, req, token, payload, attempt, tokReqs>>

\* Macrotask: the backoff timer fires; the loop starts the next attempt.
BackoffDone(c) ==
  /\ microQ = <<>>
  /\ pc[c] = "backoff"
  /\ attempt' = [attempt EXCEPT ![c] = @ + 1]
  /\ pc' = [pc EXCEPT ![c] = "posting"]
  /\ logged' = logged \cup {Log("Making request to endpoint", token[c], <<>>)}
  /\ UNCHANGED <<ledgerVars, pageVars, config, instance, scenario, now, tokenVars, microQ, req, token, payload, lastError, histVars>>

\* Time passes.
Tick ==
  /\ now < TickMs * (1 + MaxTicks)
  /\ now' = now + TickMs
  /\ UNCHANGED <<clientVars, ledgerVars, pageVars>>

Next ==
  \/ \E c \in Callers, r \in AllRequests : InitiatePayment(c, r)
  \/ UnlockTask
  \/ \E c \in Callers : ResumeAfterLock(c)
  \/ \E c \in Callers, kind \in TokenOutcomes, tok \in TokenValues, e \in ExpiresInValues :
        TokenResponse(c, kind, tok, e)
  \/ \E c \in Callers : ResumeAfterToken(c)
  \/ \E c \in Callers, kind \in PostOutcomes : PostResponse(c, kind)
  \/ \E c \in Callers : BackoffDone(c)
  \/ Tick

\* ------------------------------------------------- callback route, ledger

\* data.Body.stkCallback.ResultCode of a body whose stkCallback has no such
\* member (an empty object, a string, a number): undefined, which is !== 0.
NoResultCode == -1

\* Callback bodies the gateway may deliver. wellFormed: request.json() and the
\* reads of data.Body.stkCallback.CheckoutRequestID and .CallbackMetadata do
\* not throw.
Callbacks ==
  { [wellFormed |-> TRUE, ResultCode |-> 0, hasAmount |-> TRUE, Amount |-> 500],
    [wellFormed |-> TRUE, ResultCode |-> NoResultCode, hasAmount |-> FALSE, Amount |-> 0],
    [wellFormed |-> TRUE, ResultCode |-> 0, hasAmount |-> FALSE, Amount |-> 0],
    [wellFormed |-> TRUE, ResultCode |-> 1032, hasAmount |-> FALSE, Amount |-> 0],
    [wellFormed |-> FALSE, ResultCode |-> 0, hasAmount |-> FALSE, Amount |-> 0] }

\* slice that keeps the last n elements, as transactions.slice(-n) does
sliceLast(txs, n) == SubSeq(txs, Len(txs) - Min(Len(txs), n) + 1, Len(txs))

\* transactions.slice(0, n)
slice(txs, n) == SubSeq(txs, 1, Min(Len(txs), n))

\* CallbackReceived that also reads the Value of the PhoneNumber item, which the
\* callbacks modelled here do not carry: a callback with ResultCode 0 throws.
CallbackReceivedNeedsPhone(h, cb) ==
  /\ hpc[h] = "idle"
  /\ deliveries < scenario.deliveries
  /\ deliveries' = deliveries + 1
  /\ hcb' = [hcb EXCEPT ![h] = cb]
  /\ IF ~cb.wellFormed \/ cb.ResultCode = 0
       THEN \* request.json() or data.Body.stkCallback throws, or 'Missing required
            \* callback data': the catch answers 500
            /\ hpc' = [hpc EXCEPT ![h] = "done"]
            /\ hstatus' = [hstatus EXCEPT ![h] = 500]
            /\ UNCHANGED hrec
       ELSE /\ hpc' = [hpc EXCEPT ![h] = "reading"]
            /\ hstatus' = [hstatus EXCEPT ![h] = 0]
            /\ hrec' = [hrec EXCEPT ![h] =
                 [id |-> <<0, 0>>,
                  amount |-> IF cb.ResultCode = 0 THEN cb.Amount ELSE 0,
                  status |-> IF cb.ResultCode = 0 THEN "Completed" ELSE "Pending",
                  timestamp |-> 0]]
  /\ UNCHANGED <<now, clientVars, pageVars, transactionsFile, htxs>>

\* CallbackReceived that records completed payments only: a callback with
\* another ResultCode is logged and acknowledged without addTransaction.
CallbackReceivedFailedIgnored(h, cb) ==
  /\ hpc[h] = "idle"
  /\ deliveries < scenario.deliveries
  /\ deliveries' = deliveries + 1
  /\ hcb' = [hcb EXCEPT ![h] = cb]
  /\ IF cb.wellFormed /\ cb.ResultCode # 0
       THEN /\ hpc' = [hpc EXCEPT ![h] = "done"]
            /\ hstatus' = [hstatus EXCEPT ![h] = 200]
            /\ UNCHANGED hrec
     ELSE IF ~cb.wellFormed \/ (cb.ResultCode = 0 /\ ~cb.hasAmount)
       THEN \* request.json() or data.Body.stkCallback throws, or 'Missing required
            \* callback data': the catch answers 500
            /\ hpc' = [hpc EXCEPT ![h] = "done"]
            /\ hstatus' = [hstatus EXCEPT ![h] = 500]
            /\ UNCHANGED hrec
       ELSE /\ hpc' = [hpc EXCEPT ![h] = "reading"]
            /\ hstatus' = [hstatus EXCEPT ![h] = 0]
            /\ hrec' = [hrec EXCEPT ![h] =
                 [id |-> <<0, 0>>,
                  amount |-> IF cb.ResultCode = 0 THEN cb.Amount ELSE 0,
                  status |-> IF cb.ResultCode = 0 THEN "Completed" ELSE "Pending",
                  timestamp |-> 0]]
  /\ UNCHANGED <<now, clientVars, pageVars, transactionsFile, htxs>>

\* POST of the callback route up to the first await inside addTransaction
\* (fs.readFile in getTransactions), or to its response when it fails before.
CallbackReceived(h, cb) ==
  /\ hpc[h] = "idle"
  /\ deliveries < scenario.deliveries
  /\ deliveries' = deliveries + 1
  /\ hcb' = [hcb EXCEPT ![h] = cb]
  /\ IF ~cb.wellFormed \/ (cb.ResultCode = 0 /\ ~cb.hasAmount)
       THEN \* request.json() or data.Body.stkCallback throws, or 'Missing required
            \* callback data': the catch answers 500
            /\ hpc' = [hpc EXCEPT ![h] = "done"]
            /\ hstatus' = [hstatus EXCEPT ![h] = 500]
            /\ UNCHANGED hrec
       ELSE /\ hpc' = [hpc EXCEPT ![h] = "reading"]
            /\ hstatus' = [hstatus EXCEPT ![h] = 0]
            /\ hrec' = [hrec EXCEPT ![h] =
                 [id |-> <<0, 0>>,
                  amount |-> IF cb.ResultCode = 0 THEN cb.Amount ELSE 0,
                  status |-> IF cb.ResultCode = 0 THEN "Completed" ELSE "Pending",
                  timestamp |-> 0]]
  /\ UNCHANGED <<now, clientVars, pageVars, transactionsFile, htxs>>

\* getTransactions: what fs.readFile and JSON.parse give (ENOENT gives []);
\* on a corrupt file JSON.parse throws and getTransactions rethrows.
getTransactions == IF transactionsFile.exists THEN transactionsFile.txs ELSE <<>>

\* ReadDone that skips the append when the ledger read already holds a record
\* of the same amount and status.
ReadDoneIdempotent(h, rnd) ==
  /\ hpc[h] = "reading"
  /\ IF transactionsFile.corrupt
       THEN /\ hpc' = [hpc EXCEPT ![h] = "done"]
            /\ hstatus' = [hstatus EXCEPT ![h] = 500]
            /\ UNCHANGED <<hrec, htxs>>
     ELSE IF \E i \in DOMAIN getTransactions :
               /\ getTransactions[i].amount = hrec[h].amount
               /\ getTransactions[i].status = hrec[h].status
       THEN /\ hpc' = [hpc EXCEPT ![h] = "done"]
            /\ hstatus' = [hstatus EXCEPT ![h] = 200]
            /\ UNCHANGED <<hrec, htxs>>
       ELSE /\ LET newTransaction == [hrec[h] EXCEPT !.id = <<now, rnd>>, !.timestamp = now] IN
                 /\ hrec' = [hrec EXCEPT ![h] = newTransaction]
                 /\ htxs' = [htxs EXCEPT ![h] =
                               slice(<<newTransaction>> \o getTransactions, MAX_TRANSACTIONS)]
            /\ hpc' = [hpc EXCEPT ![h] = "writing"]
            /\ UNCHANGED hstatus
  /\ UNCHANGED <<now, clientVars, pageVars, transactionsFile, hcb, deliveries>>

\* Macrotask: fs.readFile completes; addTransaction builds newTransaction,
\* unshifts, slices and starts fs.writeFile. When JSON.parse throws,
\* addTransaction rejects and the route's catch answers 500.
ReadDone(h, rnd) ==
  /\ hpc[h] = "reading"
  /\ IF transactionsFile.corrupt
       THEN /\ hpc' = [hpc EXCEPT ![h] = "done"]
            /\ hstatus' = [hstatus EXCEPT ![h] = 500]
            /\ UNCHANGED <<hrec, htxs>>
       ELSE /\ LET newTransaction == [hrec[h] EXCEPT !.id = <<now, rnd>>, !.timestamp = now] IN
                 /\ hrec' = [hrec EXCEPT ![h] = newTransaction]
                 /\ htxs' = [htxs EXCEPT ![h] =
                               slice(<<newTransaction>> \o getTransactions, MAX_TRANSACTIONS)]
            /\ hpc' = [hpc EXCEPT ![h] = "writing"]
            /\ UNCHANGED hstatus
  /\ UNCHANGED <<now, clientVars, pageVars, transactionsFile, hcb, deliveries>>

\* Macrotask: fs.writeFile completes; addTransaction returns and the route
\* answers {received: true}.
WriteDone(h) ==
  /\ hpc[h] = "writing"
  /\ transactionsFile' = [exists |-> TRUE, txs |-> htxs[h], corrupt |-> FALSE]
  /\ hpc' = [hpc EXCEPT ![h] = "done"]
  /\ hstatus' = [hstatus EXCEPT ![h] = 200]
  /\ UNCHANGED <<now, clientVars, pageVars, hcb, htxs, hrec, deliveries>>

\* What a failed fs.writeFile(path, data) can leave behind: it opens the file
\* with flag 'w', which truncates it, and then writes; an error before the open
\* leaves the file untouched, an error after it leaves an empty or partly
\* written file.
WriteDamage == {"untouched", "truncated"}

\* Macrotask: fs.writeFile rejects; addTransaction rejects and the route's catch
\* answers 500.
WriteFailed(h, damage) ==
  /\ hpc[h] = "writing"
  /\ transactionsFile' = IF damage = "untouched" THEN transactionsFile
                         ELSE [exists |-> TRUE, txs |-> <<>>, corrupt |-> TRUE]
  /\ hpc' = [hpc EXCEPT ![h] = "done"]
  /\ hstatus' = [hstatus EXCEPT ![h] = 500]
  /\ UNCHANGED <<now, clientVars, pageVars, hcb, htxs, hrec, deliveries>>

\* The handler's request is over; the next delivery gets a fresh invocation.
HandlerReturn(h) ==
  /\ hpc[h] = "done"
  /\ hpc' = [hpc EXCEPT ![h] = "idle"]
  /\ hcb' = [hcb EXCEPT ![h] = NoCallback]
  /\ htxs' = [htxs EXCEPT ![h] = <<>>]
  /\ hrec' = [hrec EXCEPT ![h] = NoRecord]
  /\ hstatus' = [hstatus EXCEPT ![h] = 0]
  /\ UNCHANGED <<now, clientVars, pageVars, transactionsFile, deliveries>>

NextLedger ==
  \/ \E h \in Handlers, cb \in Callbacks : CallbackReceived(h, cb)
  \/ \E h \in Handlers, rnd \in 1..NumRandom : ReadDone(h, rnd)
  \/ \E h \in Handlers : WriteDone(h)
  \/ \E h \in Handlers, damage \in WriteDamage : WriteFailed(h, damage)
  \/ \E h \in Handlers : HandlerReturn(h)
  \/ Tick

\* The n-th callback of the sequential run: a successful payment of amount n.
AmountCallback(n) == [wellFormed |-> TRUE, ResultCode |-> 0, hasAmount |-> TRUE, Amount |-> n]

\* Deliveries served one at a time by one handler, with file operations that
\* succeed.
NextLedgerSeq ==
  \/ CallbackReceived(1, AmountCallback(deliveries + 1))
  \/ ReadDone(1, 1)
  \/ WriteDone(1)
  \/ HandlerReturn(1)

\* ------------- dashboard: getDailyStats, getTransactions, clearOldTransactions

\* Midnight taken in UTC instead of local time
startOfTodayUtc(t) == t - (t % DayMs)

\* const today = new Date(); today.setHours(0, 0, 0, 0); today.getTime()
startOfToday(t) == t - ((t + TimezoneOffsetMs) % DayMs)

\* transactions.filter(t => new Date(t.timestamp).getTime() >= today.getTime())
RECURSIVE filterToday(_, _)
filterToday(txs, today) ==
  IF txs = <<>> THEN <<>>
  ELSE (IF Head(txs).timestamp >= today THEN <<Head(txs)>> ELSE <<>>)
         \o filterToday(Tail(txs), today)

\* reduce((sum, t) => t.status === 'Completed' ? sum + t.amount : sum, 0)
RECURSIVE reduceRevenue(_)
reduceRevenue(txs) ==
  IF txs = <<>> THEN 0
  ELSE (IF Head(txs).status = "Completed" THEN Head(txs).amount ELSE 0)
         + reduceRevenue(Tail(txs))

\* getDailyStats on the transactions read, with Date.now() = t
getDailyStats(txs, t) ==
  LET todayTransactions == filterToday(txs, startOfToday(t)) IN
    [NoResult EXCEPT !.kind = "stats", !.totalOrders = Len(todayTransactions),
                     !.totalRevenue = reduceRevenue(todayTransactions), !.at = t]

LedgerOps == {"getDailyStats", "getTransactions", "clearOldTransactions"}

\* The dashboard calls a TransactionsManager method, up to its first await
\* (fs.readFile or fs.unlink).
LedgerCall(op) ==
  /\ apc = "idle"
  /\ op = "clearOldTransactions" => resets < MaxResets
  /\ apc' = op
  /\ UNCHANGED <<now, clientVars, authVars, ledgerVars, aresult, resets>>

\* Macrotask: the read of getDailyStats completes; the statistics are computed.
DailyStatsDone ==
  /\ apc = "getDailyStats"
  /\ aresult' = IF transactionsFile.corrupt THEN [NoResult EXCEPT !.kind = "error"]
                ELSE getDailyStats(getTransactions, now)
  /\ apc' = "done"
  /\ UNCHANGED <<now, clientVars, authVars, ledgerVars, resets>>

\* ListDone without the ENOENT branch of getTransactions' catch
ListDoneNotFound ==
  /\ apc = "getTransactions"
  /\ aresult' = IF transactionsFile.corrupt \/ ~transactionsFile.exists
                  THEN [NoResult EXCEPT !.kind = "error"]
                ELSE [NoResult EXCEPT !.kind = "list", !.txs = getTransactions]
  /\ apc' = "done"
  /\ UNCHANGED <<now, clientVars, authVars, ledgerVars, resets>>

\* Macrotask: the read of getTransactions completes.
ListDone ==
  /\ apc = "getTransactions"
  /\ aresult' = IF transactionsFile.corrupt THEN [NoResult EXCEPT !.kind = "error"]
                ELSE [NoResult EXCEPT !.kind = "list", !.txs = getTransactions]
  /\ apc' = "done"
  /\ UNCHANGED <<now, clientVars, authVars, ledgerVars, resets>>

\* UnlinkDone without the catch of clearOldTransactions
UnlinkDoneNoCatch ==
  /\ apc = "clearOldTransactions"
  /\ transactionsFile' = [exists |-> FALSE, txs |-> <<>>, corrupt |-> FALSE]
  /\ aresult' = [NoResult EXCEPT !.kind = IF transactionsFile.exists THEN "cleared" ELSE "error"]
  /\ resets' = resets + 1
  /\ apc' = "done"
  /\ UNCHANGED <<now, clientVars, authVars, hpc, hcb, htxs, hrec, hstatus, deliveries>>

\* Macrotask: fs.unlink completes, or fails with ENOENT, which the catch ignores.
UnlinkDone ==
  /\ apc = "clearOldTransactions"
  /\ transactionsFile' = [exists |-> FALSE, txs |-> <<>>, corrupt |-> FALSE]
  /\ aresult' = [NoResult EXCEPT !.kind = "cleared"]
  /\ resets' = resets + 1
  /\ apc' = "done"
  /\ UNCHANGED <<now, clientVars, authVars, hpc, hcb, htxs, hrec, hstatus, deliveries>>

\* The dashboard has used the result.
LedgerReturn ==
  /\ apc = "done"
  /\ apc' = "idle"
  /\ aresult' = NoResult
  /\ UNCHANGED <<now, clientVars, authVars, ledgerVars, resets>>

NextAdmin ==
  \/ \E op \in LedgerOps : LedgerCall(op)
  \/ DailyStatsDone
  \/ ListDone
  \/ UnlinkDone
  \/ LedgerReturn
  \/ Tick

SpecAdmin == InitAdmin /\ [][NextAdmin]_vars

Spec == Init /\ [][Next]_vars

SpecLedger == Init /\ [][NextLedger]_vars

SpecLedgerSeq == InitSeq /\ [][NextLedgerSeq]_vars

\* ------------------------------------------------------------------ claims
Range(f) == {f[i] : i \in DOMAIN f}

\* C1: single-flight token refresh: concurrent callers that find no valid
\* token converge on one token fetch, so no two fetches to the token endpoint
\* are in flight at once and no second fetch is sent while the first token is
\* still fresh.
C1_SingleFlight ==
  /\ Cardinality({c \in Callers : pc[c] = "fetchToken"}) <= 1
  /\ \A c, d \in Callers :
        (c # d /\ pc[c] \in {"gotToken", "posting"} /\ pc[d] \in {"gotToken", "posting"}
           /\ now = TickMs)
        => token[c] = token[d]

\* C2: no lost update: a record whose addTransaction returned is in the
\* persisted ledger, as long as no failed write has damaged the file (the
\* capacity of 40 is never reached within MaxDeliveries).
C2_NoLostUpdate ==
  \A h \in Handlers :
    (hpc[h] = "done" /\ hstatus[h] = 200 /\ ~transactionsFile.corrupt)
      => hrec[h] \in Range(transactionsFile.txs)

\* C3: a business rejection (2xx, ResponseCode # "0") is terminal: it is the
\* last POST of the call, the call fails with the rejection, and no backoff
\* delay follows it.
C3_RejectionTerminal ==
  \A c \in Callers : \A i \in DOMAIN resps[c] :
    resps[c][i] = "reject"
    => /\ Len(resps[c]) = i
       /\ pc[c] = "failed"
       /\ lastError[c] = "ResponseDescription"
       /\ \A j \in DOMAIN delays[c] : delays[c][j].after < i

\* C4: the gateway accepts at most one STK push per initiatePayment call.
C4_AtMostOnePush == \A c \in Callers : accepted[c] <= 1

\* A request validatePaymentRequest is to reject: a field is missing or the
\* amount is not positive.
MissingField(r) ==
  r.phoneNumber = <<>> \/ ~r.hasAmount \/ r.amount <= 0 \/ r.accountReference = ""

\* A phone number that cannot be normalized: after removing the non-digits it
\* is neither 9 digits, nor 10 digits starting with 0, nor 12 starting with 254.
Unnormalizable(r) ==
  LET d == SelectSeq(r.phoneNumber, LAMBDA ch : ch \in Digits) IN
  ~ \/ Len(d) = 9
    \/ Len(d) = 10 /\ d[1] = "0"
    \/ Len(d) = 12 /\ SubSeq(d, 1, 3) = <<"2", "5", "4">>

C6_AuthRecovery ==
  \A c \in Callers :
    resps[c] = <<"h401", "ok0">>
    => (pc[c] = "done" /\ invalidations[c] = 1)

\* C7: after an authentication rejection at an attempt that is not the last,
\* the token has been invalidated and no backoff delay follows that attempt.
C7_ImmediateRetryOnAuth ==
  \A c \in Callers : \A i \in DOMAIN resps[c] :
    (resps[c][i] = "h401" /\ i < DefaultRetries)
    => /\ invalidations[c] >= 1
       /\ \A j \in DOMAIN delays[c] : delays[c][j].after # i

\* C8: within one call the token is invalidated at most once and fetched again
\* at most once (one initial fetch, one re-fetch).
C8_AtMostOneRefresh ==
  \A c \in Callers : invalidations[c] <= 1 /\ tokReqs[c] <= 2

\* C8 witness: every attempt was rejected with 401 and the error surfaced.
C8_Witness ==
  \E c \in Callers : pc[c] = "failed" /\ resps[c] = <<"h401", "h401", "h401">>

AllTransport(c) == \A i \in DOMAIN resps[c] : resps[c][i] \in {"transport", "lost"}

NonDecreasing(ds) == \A i, j \in DOMAIN ds : i < j => ds[i].ms <= ds[j].ms

\* C9: while every exchange fails in transport, makeRequest gives up exactly
\* after the third POST, never earlier or later, having slept two backoff
\* delays; the delays are non-decreasing.
C9_BoundedRetry ==
  \A c \in Callers :
    (resps[c] # <<>> /\ AllTransport(c))
    => /\ Len(resps[c]) <= DefaultRetries
       /\ (pc[c] = "failed") <=> (Len(resps[c]) = DefaultRetries)
       /\ pc[c] = "failed" => (Len(delays[c]) = DefaultRetries - 1 /\ lastError[c] = "fetch failed")
       /\ pc[c] # "failed" => (pc[c] \in {"backoff", "posting"} /\ Len(delays[c]) = Len(resps[c]))
       /\ NonDecreasing(delays[c])

\* C9 witness: three transport failures in a row and the call has failed.
C9_Witness ==
  \E c \in Callers :
    pc[c] = "failed" /\ resps[c] = <<"transport", "transport", "transport">>

\* The error a failed exchange is to surface as.
ErrorOf(kind) ==
  IF kind = "reject" THEN "ResponseDescription"
  ELSE IF kind \in {"h401", "h500"} THEN "errorMessage"
  ELSE "fetch failed"

\* C10: when the attempt budget is exhausted the error raised is the one of the
\* last attempt, of the kind the gateway or the transport produced.
C10_LastErrorKind ==
  \A c \in Callers :
    (pc[c] = "failed" /\ Len(resps[c]) = DefaultRetries)
    => lastError[c] = ErrorOf(resps[c][DefaultRetries])

\* A single call never finds the lock held, so it never awaits it.
\* The cache holds a token and its expiry lies ahead (spec.md 3, without skew).
CachedValid == accessToken # "" /\ now < tokenExpiry

\* Caller c evaluates getAccessToken's validity check in this step: at the call
\* when the lock is free, on resuming from `await this.tokenLock` otherwise.
ChecksCache(c) ==
  \/ pc[c] = "idle" /\ pc'[c] \notin {"idle", "failed", "awaitLock"}
  \/ pc[c] = "awaitLock" /\ pc'[c] # "awaitLock"

\* Caller c's getAccessToken returns from the cache in this step.
CacheHit(c) == ChecksCache(c) /\ pc'[c] = "gotToken"

\* C11: whenever getAccessToken checks the cache and finds a token whose expiry
\* lies ahead, it returns exactly the cached accessToken, leaves the cache as
\* it is and sends no request to the token endpoint; so calls made while the
\* same token stays cached and valid return the same value.
C11_CachedTokenReturned ==
  [][\A c \in Callers :
       (ChecksCache(c) /\ CachedValid) =>
         /\ pc'[c] = "gotToken"
         /\ token'[c] = accessToken
         /\ tokReqs'[c] = tokReqs[c]
         /\ accessToken' = accessToken /\ tokenExpiry' = tokenExpiry]_vars

\* A caller holds a token it never asked the token endpoint for.
C11_Witness ==
  \E c \in Callers : pc[c] = "gotToken" /\ tokReqs[c] = 0 /\ token[c] = accessToken /\ CachedValid

\* C12: refresh skew: getAccessToken never returns a cached token at a time
\* now with now >= tokenExpiry - RefreshSkewMs; a token that close to its
\* expiry is refreshed instead.
C12_RefreshSkew ==
  [][\A c \in Callers : CacheHit(c) => now < tokenExpiry - RefreshSkewMs]_vars

\* C13: a caller that waited on the refresh in flight leaves the wait with that
\* refresh's token or with its failure; it does not send a token request of
\* its own.
C13_WaiterSharesOutcome ==
  [][\A c \in Callers :
       pc[c] = "awaitLock" =>
         /\ pc'[c] \in {"awaitLock", "gotToken", "failed"}
         /\ tokReqs'[c] = tokReqs[c]]_vars

TokenErrors == {"Failed to get access token", "Invalid token response from server"}

\* C14: a token exchange that is answered with a non-2xx status or with a body
\* without access_token makes getAccessToken fail with the token error, and
\* accessToken and tokenExpiry stay as they were; only a body with an
\* access_token is ever cached.
C14_FailedExchangeKeepsCache ==
  [][\A c \in Callers :
       pc[c] = "fetchToken" =>
         /\ pc'[c] = "failed" =>
              /\ accessToken' = accessToken /\ tokenExpiry' = tokenExpiry
              /\ lastError'[c] \in TokenErrors \cup {"fetch failed"}
         /\ pc'[c] = "gotToken" => accessToken' \in TokenValues /\ token'[c] = accessToken'
         /\ pc'[c] \in {"fetchToken", "failed", "gotToken"}]_vars

\* A token exchange has failed on a bad answer while the cache, filled by another
\* caller's exchange, still holds its token.
C14_Witness ==
  \E c \in Callers :
    /\ pc[c] = "failed" /\ tokReqs[c] = 1 /\ lastError[c] \in TokenErrors
    /\ accessToken \in TokenValues /\ tokenExpiry > 0

\* C15: once the payment endpoint has rejected a token as unauthenticated, the
\* next getAccessToken call does not return that token from the cache: it
\* fetches, even though the token's expiry has not passed.
C15_RejectedTokenNotReused ==
  \A c, d \in Callers :
    (c # d /\ "h401" \in Range(resps[d]) /\ pc[c] = "gotToken" /\ tokReqs[c] = 0)
      => token[c] # token[d]

Last(q) == q[Len(q)]

\* C16: initiatePayment returns the gateway's acknowledgment only on a response
\* with ResponseCode "0"; after any other response the call has not returned,
\* and when it fails on a business rejection its error carries the gateway's
\* ResponseDescription.
C16_AckOnlyOnCodeZero ==
  \A c \in Callers :
    /\ pc[c] = "done" => resps[c] # <<>> /\ Last(resps[c]) = "ok0"
    /\ (resps[c] # <<>> /\ Last(resps[c]) # "ok0") => pc[c] \in {"backoff", "posting", "failed"}
    /\ (pc[c] = "failed" /\ resps[c] # <<>> /\ Last(resps[c]) = "reject")
         => lastError[c] = "ResponseDescription"

\* A call has failed after three business rejections.
C16_Witness ==
  \E c \in Callers :
    pc[c] = "failed" /\ resps[c] = <<"reject", "reject", "reject">> /\ lastError[c] = "ResponseDescription"

\* C17: every POST to the payment endpoint carries `Authorization: Bearer t`
\* with t the token getAccessToken returned to this initiatePayment call.
C17_BearerIsReturnedToken ==
  \A c \in Callers : attempt[c] >= 1 => payload[c].Authorization = token[c]

\* The records of the first k callbacks of the sequential run, newest first,
\* as far as the ledger's capacity reaches.
NewestFirst(txs, k) ==
  /\ Len(txs) = Min(k, MAX_TRANSACTIONS)
  /\ \A i \in 1..Len(txs) : txs[i].amount = k - i + 1 /\ txs[i].status = "Completed"

\* Appends of the sequential run that have been written.
Appended == IF hpc[1] \in {"reading", "writing"} THEN deliveries - 1 ELSE deliveries

\* C18: after n sequential successful appends to an empty ledger the persisted
\* ledger holds exactly min(n, 40) records, the most recently appended ones,
\* newest first; it never holds more than 40, and what is evicted is the
\* oldest record.
C18_CapacityAndOrder ==
  /\ Len(transactionsFile.txs) <= MAX_TRANSACTIONS
  /\ NewestFirst(getTransactions, Appended)
  /\ hpc[1] = "writing" => NewestFirst(htxs[1], deliveries)

\* More appends than the capacity have been written.
C18_Witness ==
  /\ deliveries = MAX_TRANSACTIONS + 2 /\ hpc[1] = "done" /\ hstatus[1] = 200
  /\ Len(transactionsFile.txs) = MAX_TRANSACTIONS
  /\ transactionsFile.txs[1].amount = MAX_TRANSACTIONS + 2
  /\ transactionsFile.txs[MAX_TRANSACTIONS].amount = 3

\* C19: a write of addTransaction that fails leaves transactions.json with
\* the content it had, and the handler answers with an error.
C19_FailedWriteKeepsFile ==
  [][\A h \in Handlers :
       (hpc[h] = "writing" /\ hpc'[h] = "done" /\ hstatus'[h] # 200)
         => transactionsFile' = transactionsFile /\ hstatus'[h] = 500]_vars

\* A callback with ResultCode 0 whose metadata has an Amount item.
PaidCallback(cb) == cb.wellFormed /\ cb.ResultCode = 0 /\ cb.hasAmount

\* C20: a well-formed callback with ResultCode 0 and an Amount item is answered
\* taken to addTransaction whatever other items it has; addTransaction puts
\* exactly one new record, with status Completed and the item's amount, in
\* front of the records it read, and once that list is written the callback
\* is answered with {received: true}. Only a failing file operation makes
\* the answer an error.
C20_CompletedRecord ==
  [][\A h \in Handlers :
       /\ (hpc[h] = "idle" /\ hpc'[h] # "idle" /\ PaidCallback(hcb'[h])) => hpc'[h] = "reading"
       /\ PaidCallback(hcb[h]) =>
            /\ (hpc[h] = "reading" /\ hpc'[h] = "writing") =>
                 /\ htxs'[h][1] = hrec'[h]
                 /\ hrec'[h].status = "Completed" /\ hrec'[h].amount = hcb[h].Amount
                 /\ Len(htxs'[h]) = Min(Len(getTransactions) + 1, MAX_TRANSACTIONS)
                 /\ \A i \in 2..Len(htxs'[h]) : htxs'[h][i] = getTransactions[i - 1]
            /\ (hpc[h] = "reading" /\ hpc'[h] = "done") =>
                 transactionsFile.corrupt /\ hstatus'[h] = 500
            /\ (hpc[h] = "writing" /\ hpc'[h] = "done") =>
                 \/ hstatus'[h] = 200 /\ transactionsFile'.txs = htxs[h]
                      /\ ~transactionsFile'.corrupt
                 \/ hstatus'[h] = 500]_vars

\* A paid callback has been acknowledged and its record heads the ledger.
C20_Witness ==
  \E h \in Handlers :
    /\ hpc[h] = "done" /\ hstatus[h] = 200 /\ hcb[h].ResultCode = 0 /\ hcb[h].hasAmount
    /\ hrec[h].status = "Completed" /\ hrec[h].amount = 500
    /\ transactionsFile.txs # <<>> /\ transactionsFile.txs[1] = hrec[h]

\* A callback with a ResultCode other than 0.
FailedCallback(cb) == cb.wellFormed /\ cb.ResultCode \notin {0, NoResultCode}

\* C21: a callback with a ResultCode other than 0 is taken to addTransaction,
\* which puts exactly one new record, with status Pending and amount 0, in
\* front of the records it read; once that list is written the callback is
\* answered with {received: true}. Only a failing file operation makes the
\* answer an error.
C21_PendingRecord ==
  [][\A h \in Handlers :
       /\ (hpc[h] = "idle" /\ hpc'[h] # "idle" /\ FailedCallback(hcb'[h])) => hpc'[h] = "reading"
       /\ FailedCallback(hcb[h]) =>
            /\ (hpc[h] = "reading" /\ hpc'[h] = "writing") =>
                 /\ htxs'[h][1] = hrec'[h]
                 /\ hrec'[h].status = "Pending" /\ hrec'[h].amount = 0
                 /\ Len(htxs'[h]) = Min(Len(getTransactions) + 1, MAX_TRANSACTIONS)
                 /\ \A i \in 2..Len(htxs'[h]) : htxs'[h][i] = getTransactions[i - 1]
            /\ (hpc[h] = "reading" /\ hpc'[h] = "done") =>
                 transactionsFile.corrupt /\ hstatus'[h] = 500
            /\ (hpc[h] = "writing" /\ hpc'[h] = "done") =>
                 \/ hstatus'[h] = 200 /\ transactionsFile'.txs = htxs[h]
                      /\ ~transactionsFile'.corrupt
                 \/ hstatus'[h] = 500]_vars

\* A cancelled payment has been acknowledged and its record heads the ledger.
C21_Witness ==
  \E h \in Handlers :
    /\ hpc[h] = "done" /\ hstatus[h] = 200 /\ hcb[h].ResultCode = 1032
    /\ hrec[h].status = "Pending" /\ hrec[h].amount = 0
    /\ transactionsFile.txs # <<>> /\ transactionsFile.txs[1] = hrec[h]

\* A body that is not the callback envelope, or a completed payment without an
\* Amount item.
Malformed(cb) ==
  ~cb.wellFormed \/ cb.ResultCode = NoResultCode \/ (cb.ResultCode = 0 /\ ~cb.hasAmount)

\* C22: a malformed callback is answered with {error} and status 500 without
\* reaching addTransaction: the persisted ledger is not touched by it.
C22_MalformedRejected ==
  [][\A h \in Handlers :
       /\ (hpc[h] = "idle" /\ hpc'[h] # "idle" /\ Malformed(hcb'[h])) =>
            hpc'[h] = "done" /\ hstatus'[h] = 500 /\ transactionsFile' = transactionsFile
       /\ (hpc[h] # "idle" /\ Malformed(hcb[h])) => hpc[h] = "done" /\ hstatus[h] = 500]_vars

\* Records of txs with the amount and status of r.
Copies(txs, r) ==
  Cardinality({i \in DOMAIN txs : txs[i].amount = r.amount /\ txs[i].status = r.status})

\* C23: no idempotency check: addTransaction appends the record of a callback
\* whatever the ledger it read holds, so a callback delivered again adds a
\* second record; a delivery whose write succeeds is acknowledged and leaves
\* a well-formed ledger.
C23_NoIdempotencyCheck ==
  [][\A h \in Handlers :
       /\ (hpc[h] = "reading" /\ ~transactionsFile.corrupt) =>
            /\ hpc'[h] \in {"reading", "writing"}
            /\ hpc'[h] = "writing" =>
                 Copies(htxs'[h], hrec[h]) =
                   Min(Copies(getTransactions, hrec[h]) + 1, MAX_TRANSACTIONS)
       /\ (hpc[h] = "writing" /\ hpc'[h] = "done" /\ hstatus'[h] = 200) =>
            transactionsFile' = [exists |-> TRUE, txs |-> htxs[h], corrupt |-> FALSE]]_vars

\* The same callback was delivered twice, both deliveries are acknowledged and
\* the ledger holds two records of it.
C23_Witness ==
  \E h, g \in Handlers :
    /\ h # g /\ hcb[h] = hcb[g] /\ PaidCallback(hcb[h])
    /\ hpc[h] = "done" /\ hstatus[h] = 200 /\ hpc[g] = "done" /\ hstatus[g] = 200
    /\ Len(transactionsFile.txs) = 2 /\ Copies(transactionsFile.txs, hrec[h]) = 2

AllDigits(p) == \A i \in DOMAIN p : p[i] \in Digits

\* The three accepted shapes, read on the string q as it stands.
Normalized(q) ==
  IF AllDigits(q) /\ Len(q) = 9 THEN <<"2", "5", "4">> \o q
  ELSE IF AllDigits(q) /\ Len(q) = 10 /\ q[1] = "0" THEN <<"2", "5", "4">> \o SubSeq(q, 2, 10)
  ELSE IF AllDigits(q) /\ Len(q) = 12 /\ SubSeq(q, 1, 3) = <<"2", "5", "4">> THEN q
  ELSE InvalidFormat

\* initiatePayment of caller c has applied formatPhoneNumber to its request's
\* phone number, and what that gave.
Formatted(c) == attempt[c] >= 1 \/ lastError[c] = "Invalid phone number format"
FormatResult(c) == IF attempt[c] >= 1 THEN payload[c].PhoneNumber ELSE InvalidFormat

\* C24 as stated: formatPhoneNumber maps a 9-digit number to "254" and the
\* number, a 10-digit number starting with "0" to "254" and its last 9 digits,
\* a 12-digit number starting with "254" to itself, and fails on every other
\* input.
C24_PhoneNormalization ==
  \A c \in Callers : Formatted(c) => FormatResult(c) = Normalized(req[c].phoneNumber)

\* C24, amended: formatPhoneNumber first removes every character that is not a
\* digit and applies the three rules to the digits that remain; every result is
\* 12 digits starting with "254".
C24_DigitsNormalization ==
  \A c \in Callers :
    Formatted(c) =>
      /\ FormatResult(c) = Normalized(SelectSeq(req[c].phoneNumber, IsDigit))
      /\ FormatResult(c) # InvalidFormat =>
           /\ Len(FormatResult(c)) = 12 /\ AllDigits(FormatResult(c))
           /\ SubSeq(FormatResult(c), 1, 3) = <<"2", "5", "4">>

\* A number written with a leading "+" has been normalized and sent.
C24_Witness ==
  \E c \in Callers :
    /\ attempt[c] >= 1 /\ req[c].phoneNumber = PhonePlus
    /\ payload[c].PhoneNumber = Phone254

\* The local day a time falls in.
LocalDay(t) == (t + TimezoneOffsetMs) \div DayMs

RECURSIVE SumOfAmounts(_, _)
SumOfAmounts(txs, S) ==
  IF S = {} THEN 0
  ELSE LET i == CHOOSE i \in S : TRUE IN txs[i].amount + SumOfAmounts(txs, S \ {i})

C26_ListNeverNotFound ==
  [][(apc = "getTransactions" /\ apc' = "done" /\ ~transactionsFile.corrupt) =>
       /\ aresult'.kind = "list"
       /\ aresult'.txs = IF transactionsFile.exists THEN transactionsFile.txs ELSE <<>>
       /\ transactionsFile' = transactionsFile]_vars

\* The list of a ledger that was never written.
C26_Witness ==
  /\ apc = "done" /\ aresult.kind = "list" /\ aresult.txs = <<>>
  /\ ~transactionsFile.exists /\ resets = 0

\* C27: clearOldTransactions succeeds whether or not transactions.json exists
\* and leaves no file; after it getTransactions gives the empty list.
C27_ResetIdempotent ==
  [][/\ (apc = "clearOldTransactions" /\ apc' = "done") =>
          aresult'.kind = "cleared" /\ ~transactionsFile'.exists
     /\ resets > 0 =>
          /\ ~transactionsFile.exists
          /\ aresult.kind = "list" => aresult.txs = <<>>]_vars

\* A second reset has succeeded on a ledger that no longer existed.
C27_Witness == resets = 2 /\ apc = "done" /\ aresult.kind = "cleared"

\* A phone number as maskPhoneNumber shows it: twelve characters, the seventh
\* to the tenth replaced by "*".
Masked(p) == Len(p) = 12 /\ \A i \in 7..10 : p[i] = "*"

\* C28: no console entry of MpesaAPI carries an access token, and a phone
\* number appears in an entry only in its masked form.
C28_NoSecretInLog ==
  \A e \in logged :
    /\ e.accessToken \notin TokenValues
    /\ e.phoneNumber # <<>> => Masked(e.phoneNumber)

NextExec ==
  \/ \E c \in Callers, r \in AllRequests : InitiatePayment(c, r)
  \/ UnlockTask
  \/ \E c \in Callers, kind \in TokenOutcomes, tok \in TokenValues, e \in ExpiresInValues :
        TokenResponse(c, kind, tok, e)
  \/ \E c \in Callers : ResumeAfterToken(c)
  \/ \E c \in Callers, kind \in PostOutcomes : PostResponse(c, kind)
  \/ \E c \in Callers : BackoffDone(c)
  \/ Tick

SpecExec == InitExec /\ [][NextExec]_vars

\* ------------------------------------------------- endpoints that stay silent
\* The endpoint the caller is waiting for never answers and the connection
\* stays open: the promise of `await fetch(...)` stays pending. The call to
\* fetch carries no signal and no timer is started beside it, so nothing in
\* MpesaAPI runs for this caller again.
NoResponse(c) ==
  /\ microQ = <<>>
  /\ pc[c] \in {"fetchToken", "posting"}
  /\ pc' = [pc EXCEPT ![c] = "pending"]
  /\ UNCHANGED <<ledgerVars, pageVars, config, instance, scenario, now, tokenVars, microQ, req, token,
                 payload, attempt, lastError, histVars, logged>>

NextLive ==
  \/ \E c \in Callers, r \in AllRequests : InitiatePayment(c, r)
  \/ UnlockTask
  \/ \E c \in Callers, kind \in TokenOutcomes, tok \in TokenValues, e \in ExpiresInValues :
        TokenResponse(c, kind, tok, e)
  \/ \E c \in Callers : ResumeAfterToken(c)
  \/ \E c \in Callers, kind \in PostOutcomes : PostResponse(c, kind)
  \/ \E c \in Callers : BackoffDone(c)
  \/ \E c \in Callers : NoResponse(c)
  \/ Tick

\* The event loop runs what is runnable: a queued microtask, a timer that is
\* due, the handler of an answer that has arrived.
SpecLive == InitExec /\ [][NextLive]_vars /\ WF_vars(NextLive)

\* C29: every call of initiatePayment that has started eventually returns
\* or fails, also when an endpoint stays silent.
C29_CallTerminates ==
  \A c \in Callers : (pc[c] # "idle") ~> (pc[c] \in {"done", "failed"})

\* ------------------------------------------------------------ construction
\* The constructor runs on one of Configs; on the instance it returns a single
\* caller initiates payments.
NextConfig ==
  \/ \E cfg \in Configs : Construct(cfg)
  \/ \E c \in Callers, r \in AllRequests : InitiatePayment(c, r)
  \/ UnlockTask
  \/ \E c \in Callers, kind \in TokenOutcomes, tok \in TokenValues, e \in ExpiresInValues :
        TokenResponse(c, kind, tok, e)
  \/ \E c \in Callers : ResumeAfterToken(c)
  \/ \E c \in Callers, kind \in PostOutcomes : PostResponse(c, kind)
  \/ \E c \in Callers : BackoffDone(c)
  \/ Tick

SpecConfig == InitConfig /\ [][NextConfig]_vars

\* An HTTPS URL: the scheme "https://" followed by a host.
IsHttpsUrl(u) == startsWith(u, <<"h", "t", "t", "p", "s", ":", "/", "/">>) /\ Len(u) > 8

\* C30: the constructor returns a client only for a configuration whose six
\* fields are all non-empty and whose callbackUrl is an HTTPS URL; for every
\* other configuration it throws.
C30_ConfigValidated ==
  instance = "ok" => missingFields(config) = {} /\ IsHttpsUrl(config.callbackUrl)

\* ------------------------------------------------------------------ record ids
\* C31: no two records of the persisted ledger share an id, also when they
\* were appended within the same millisecond.
C31_UniqueIds ==
  \A i, j \in DOMAIN transactionsFile.txs :
    transactionsFile.txs[i].id = transactionsFile.txs[j].id => i = j

\* ---------------------------------------------------------------- the Amount
\* C32: the Amount of every payload built for the gateway is a whole number of
\* units nearest to the request's amount: it differs from it by at most half
\* a unit (amounts are held in tenths), and 100.6 becomes 101.
C32_AmountRounded ==
  \A c \in Callers :
    payload[c] # NoPayload =>
      /\ payload[c].Amount * 10 - req[c].amount \in -5..5
      /\ req[c].amount = 1006 => payload[c].Amount = 101

\* The request for 100.6 was posted with Amount 101.
C32_Witness ==
  \E c \in Callers :
    req[c].amount = 1006 /\ payload[c].Amount = 101 /\ resps[c] # <<>>

\* C36: the Amount of every payload built for the gateway is at least 1.
C36_AmountAtLeastOne ==
  \A c \in Callers : payload[c] # NoPayload => payload[c].Amount >= 1

\* ------------------------------------------------------------ backoff schedule
\* The delay the schedule gives after failed attempt k, in milliseconds.
Schedule(k) == IF Pow2(k) * 1000 > 10000 THEN 10000 ELSE Pow2(k) * 1000

\* C33: the k-th delay of a call follows its k-th failed attempt and lasts
\* min(2^k * 1000, 10000) ms, never more than 10000 ms; every failed attempt
\* but the final one is followed by a delay, and the final one by none.
C33_BackoffSchedule ==
  \A c \in Callers :
    /\ \A k \in DOMAIN delays[c] :
         /\ delays[c][k] = [after |-> k, ms |-> Schedule(k)]
         /\ delays[c][k].ms <= 10000
         /\ k < DefaultRetries
    /\ pc[c] \in {"backoff", "posting"} => Len(delays[c]) = Len(resps[c])
    /\ (pc[c] \in {"done", "failed"} /\ resps[c] # <<>>) => Len(delays[c]) = Len(resps[c]) - 1

\* A call has failed at its third attempt after delays of 2000 and 4000 ms.
C33_Witness ==
  \E c \in Callers :
    /\ pc[c] = "failed" /\ Len(resps[c]) = 3
    /\ delays[c] = <<[after |-> 1, ms |-> 2000], [after |-> 2, ms |-> 4000]>>

\* ------------------------------------------------------------ initiate route
\* paymentSchema.parse(data) returns: phoneNumber of 10 to 13 characters,
\* amount at least 1, accountReference not empty.
paymentSchema(r) ==
  /\ Len(r.phoneNumber) \in 10..13
  /\ r.hasAmount /\ r.amount >= 10
  /\ r.accountReference # ""

\* The initiate route serves POSTs one after the other; the payment endpoint
\* accepts or is unreachable.
RoutePosts ==
  [callers |-> Callers,
   requests |-> {Req(Phone0, TRUE, 1006, "INV1"), Req(Phone254, TRUE, 1000, "INV1"),
                 Req(Phone9, TRUE, 1000, "INV1")},
   outcomes |-> {"ok0", "transport"},
   deliveries |-> 0]

InitRoute == scenario = RoutePosts /\ ClientInit /\ LedgerInit

\* Macrotask: a POST arrives at the initiate route while no other is being
\* served. The route parses the body, constructs a MpesaAPI of its own (fields
\* accessToken "", tokenExpiry 0, tokenLock null) and calls initiatePayment on
\* it, which runs up to the first await of getAccessToken. The instance of the
\* previous POST is unreachable by then, so the fields are held once.
POST(c, r) ==
  /\ c \in scenario.callers
  /\ r \in scenario.requests
  /\ microQ = <<>>
  /\ \A d \in Callers : pc[d] \in {"idle", "done", "failed"}
  /\ pc[c] = "idle"
  /\ req' = [req EXCEPT ![c] = r]
  /\ IF ~paymentSchema(r)
       THEN \* ZodError: answered 400, no client is constructed
            /\ pc' = [pc EXCEPT ![c] = "failed"]
            /\ lastError' = [lastError EXCEPT ![c] = "Invalid request data"]
            /\ UNCHANGED <<tokenVars, token, tokReqs, logged>>
       ELSE IF validatePaymentRequest(r) # ""
         THEN /\ pc' = [pc EXCEPT ![c] = "failed"]
              /\ lastError' = [lastError EXCEPT ![c] = validatePaymentRequest(r)]
              /\ accessToken' = "" /\ tokenExpiry' = 0 /\ tokenLock' = FALSE
              /\ UNCHANGED <<token, tokReqs, logged>>
         ELSE \* tokenLock is null and isTokenValid() is false on the new instance
              /\ accessToken' = "" /\ tokenExpiry' = 0 /\ tokenLock' = TRUE
              /\ logged' = logged \cup {Log("Requesting new access token", "", <<>>)}
              /\ pc' = [pc EXCEPT ![c] = "fetchToken"]
              /\ tokReqs' = [tokReqs EXCEPT ![c] = @ + 1]
              /\ UNCHANGED <<token, lastError>>
  /\ UNCHANGED <<ledgerVars, pageVars, config, instance, scenario, now, microQ, payload, attempt,
                 resps, delays, invalidations, accepted>>

NextRoute ==
  \/ \E c \in Callers, r \in AllRequests : POST(c, r)
  \/ UnlockTask
  \/ \E c \in Callers, kind \in TokenOutcomes, tok \in TokenValues, e \in ExpiresInValues :
        TokenResponse(c, kind, tok, e)
  \/ \E c \in Callers : ResumeAfterToken(c)
  \/ \E c \in Callers, kind \in PostOutcomes : PostResponse(c, kind)
  \/ \E c \in Callers : BackoffDone(c)
  \/ Tick

SpecRoute == InitRoute /\ [][NextRoute]_vars

\* C34: a POST served after another whose token is still valid sends no
\* request to the token endpoint.
C34_TokenSharedAcrossPosts ==
  [][\A d \in Callers :
       (pc[d] = "idle" /\ pc'[d] # "idle" /\ isTokenValid
          /\ \E c \in Callers : pc[c] = "done" /\ token[c] = accessToken)
       => tokReqs'[d] = 0]_vars

\* ------------------------------------------------------------------ tokenLock
\* Concurrent callers on one shared instance whose payment endpoint accepts or
\* is unreachable.
LockCallers == [ConcurrentCallers EXCEPT !.outcomes = {"ok0", "transport"}]

InitLock == scenario = LockCallers /\ ClientInit /\ LedgerInit

\* The event loop drains the microtask queue: a queued continuation or
\* unlock callback runs. Answers of the endpoints and timers are left free.
SpecLock ==
  /\ InitLock /\ [][Next]_vars
  /\ WF_vars(UnlockTask)
  /\ \A c \in Callers : WF_vars(ResumeAfterLock(c)) /\ WF_vars(ResumeAfterToken(c))

\* getAccessToken has completed and its finally block has queued the unlock.
UnlockQueued == \E i \in DOMAIN microQ : microQ[i] = Unlock

\* C35: once a call of getAccessToken has completed, tokenLock is eventually
\* null, and a caller that awaits the lock eventually goes on.
C35_LockReleased ==
  /\ UnlockQueued ~> ~tokenLock
  /\ \A c \in Callers : (pc[c] = "awaitLock") ~> (pc[c] # "awaitLock")

\* A caller that awaited the lock has gone on with the cached token, and the
\* lock is null.
C35_Witness ==
  /\ \E e \in logged : e.message = "Using cached access token"
  /\ ~tokenLock
  /\ \A c \in Callers : pc[c] # "awaitLock"

\* ----------------------------------------------------- login and middleware
\* Values of JWT_SECRET: not set, or set.
Secrets == {"", "s3cret"}

\* SECRET_KEY of the login route
signKey == IF jwtSecret = "" THEN DefaultSecret ELSE jwtSecret

\* new TextEncoder().encode(process.env.JWT_SECRET) in the middleware: the
\* empty key when JWT_SECRET is not set
verifyKey == jwtSecret

\* new SignJWT({email}).setIssuedAt().setExpirationTime('8h').sign(key) at time t
SignJWT(key, t) == [signedWith |-> key, exp |-> t + SessionMs]

\* jwtVerify(token, key) at time t returns (it throws otherwise)
jwtVerify(tok, key, t) == tok.signedWith = key /\ tok.exp > t

\* Request paths, as their segments.
publicPaths ==
  {<<>>, <<"api", "auth", "login">>, <<"favicon.ico">>, <<"public">>,
   <<"api", "payments", "callback">>, <<"api", "payments", "initiate">>}

Paths == {<<>>, <<"dashboard">>, <<"api", "transactions">>, <<"api", "payments", "initiate">>}

\* pathname.startsWith('/api/')
isApi(path) == Len(path) >= 2 /\ path[1] = "api"

\* What the login route is posted: the credentials it accepts, a wrong
\* password, a wrong email.
Credentials ==
  {[email |-> "tweeps-fastfood@gmail.com", password |-> "FOOD200"],
   [email |-> "tweeps-fastfood@gmail.com", password |-> "food200"],
   [email |-> "admin@gmail.com", password |-> "FOOD200"]}

\* Who sends a request: the browser with its cookies, or a client that sends
\* one internal-auth-token cookie: no JWT at all, an expired JWT, or a current
\* JWT signed with "s3cret".
Senders == {"browser", "garbage", "expired", "service"}

cookiesOf(sender) ==
  IF sender = "browser" THEN jar
  ELSE [n \in CookieNames |->
          IF n # "internal-auth-token" THEN NoCookie
          ELSE IF sender = "garbage" THEN [signedWith |-> "garbage", exp |-> 0]
          ELSE IF sender = "expired" THEN [signedWith |-> "s3cret", exp |-> 0]
          ELSE [signedWith |-> "s3cret", exp |-> SessionMs]]

\* The answer of the middleware to a request for path carrying cookies sent:
\* "next", "401" or "redirect" (to /login).
middleware(path, sent, t) ==
  LET denied == IF isApi(path) THEN "401" ELSE "redirect" IN
    IF path \in publicPaths THEN "next"
    ELSE IF sent["internal-auth-token"] = NoCookie THEN denied
    ELSE IF jwtVerify(sent["internal-auth-token"], verifyKey, t) THEN "next"
    ELSE denied

InitAuth ==
  /\ scenario = DashboardOnly
  /\ ClientInit
  /\ HandlersIdle
  /\ transactionsFile = [exists |-> FALSE, txs |-> <<>>, corrupt |-> FALSE]
  /\ jwtSecret \in Secrets
  /\ jar = [n \in CookieNames |-> NoCookie]
  /\ lres = 0
  /\ mres = NoVisit

\* POST /api/auth/login from the browser, answered; the browser stores the
\* cookie of the answer.
Login(body) ==
  /\ IF body.email # "tweeps-fastfood@gmail.com" \/ body.password # "FOOD200"
       THEN /\ lres' = 401
            /\ UNCHANGED jar
       ELSE /\ lres' = 200
            /\ jar' = [jar EXCEPT !["auth-token"] = SignJWT(signKey, now)]
  /\ UNCHANGED <<now, clientVars, ledgerVars, apc, aresult, resets, jwtSecret, mres>>

\* A request of sender for path reaches the middleware and is answered.
Visit(path, sender) ==
  /\ mres' = [path |-> path, sent |-> cookiesOf(sender),
              result |-> middleware(path, cookiesOf(sender), now), at |-> now]
  /\ UNCHANGED <<now, clientVars, ledgerVars, apc, aresult, resets, jwtSecret, jar, lres>>

NextAuth ==
  \/ \E body \in Credentials : Login(body)
  \/ \E path \in Paths, sender \in Senders : Visit(path, sender)
  \/ Tick

SpecAuth == InitAuth /\ [][NextAuth]_vars

\* A token the login route has issued that has not expired at time t.
ValidSession(tok, t) == tok.signedWith = signKey /\ tok.exp > t

\* C37: a request for a non-public path that carries the cookie set by a
\* successful login is passed through, and one that carries no valid token is
\* answered 401 (API path) or redirected to /login (page path).
C37_LoginSessionAccepted ==
  (mres # NoVisit /\ mres.path \notin publicPaths) =>
    /\ (mres.sent["auth-token"] # NoCookie /\ ValidSession(mres.sent["auth-token"], mres.at))
         => mres.result = "next"
    /\ (\A n \in CookieNames : ~ValidSession(mres.sent[n], mres.at))
         => mres.result = (IF isApi(mres.path) THEN "401" ELSE "redirect")

====
